---------------------------- MODULE Spec2Model ----------------------------
(***************************************************************************)
(* Lynchian Weather Dreams: the client-side generation pipeline of App.tsx *)
(* (handleSelectLocation, processLocation, the auto-drift effect) and the  *)
(* playback component LynchPlayer.tsx (startPlayback, stopPlayback, the    *)
(* visualizer's draw loop), as one state machine.                          *)
(*                                                                         *)
(* React state is modelled at render granularity: state updates issued     *)
(* synchronously by one continuation are batched (React 19) and the commit *)
(* that follows (effect cleanups, then effects) belongs to the same step.  *)
(* Every await of the source is a step boundary.                           *)
(***************************************************************************)
EXTENDS Integers, Sequences, FiniteSets, TLC

(***************************************************************************)
(* Bounds of the model: the number of environment events explored.         *)
(***************************************************************************)
MaxStarts == 2
MaxReplays == 1
MaxAppends == 7
MaxLoads == 2

(***************************************************************************)
(* Program constants.                                                      *)
(***************************************************************************)
LogCap == 5
AutoIntervalMs == 60000

VARIABLES
    appState,         \* App.tsx:10 useState<AppState>
    currentLocation,  \* App.tsx:11 <<>> for null, <<coords>> otherwise
    content,          \* App.tsx:12 <<>> for null, <<bundle>> otherwise
    autoMode,         \* App.tsx:13
    autoTimer,        \* App.tsx:17 the delay of the scheduled interval, 0 if none
    leakedIntervals,  \* scheduled auto-drift intervals the ref no longer holds
    currentTheme,     \* App.tsx:14 the id of the selected ThemeConfig
    autoTheme,        \* the theme closed over by the scheduled runAutoLoop
    logs,             \* App.tsx:15 most recent first
    appAudioCtx,      \* App.tsx:18 TRUE once audioContextRef.current is set
    runs,             \* in-flight invocations of processLocation
    started,          \* number of processLocation invocations so far
    isPlaying,        \* LynchPlayer.tsx:14
    sourceNodeRef,    \* LynchPlayer.tsx:16 0 for null, else a source id
    sources,          \* the AudioBufferSourceNodes created so far
    loops,            \* sources whose draw loop has a frame scheduled
    pendingStarts,    \* startPlayback calls suspended at `await resume()`
    replays,          \* number of Replay clicks so far
    globalCities,     \* App.tsx:16
    cityLoads,        \* calls of loadGlobalData waiting for their fetch
    sunPos,           \* WorldMap.tsx:15 <<>> for null
    currentTime,      \* WorldMap.tsx (city clock) the UTC hour and minute shown
    timers,           \* per interval of App.tsx:29 and WorldMap.tsx, its delay, 0 if none
    lifecycle,        \* "created" (before the first commit), "mounted", "unmounted"
    lastOp            \* the handler or continuation that ran last

vars == <<appState, currentLocation, content, autoMode, autoTimer, leakedIntervals,
          currentTheme, autoTheme, logs, appAudioCtx, runs, started, isPlaying, sourceNodeRef, sources,
          loops, pendingStarts, replays, globalCities, cityLoads, sunPos,
          currentTime, timers, lifecycle, lastOp>>

appVars == <<appState, currentLocation, content, autoMode, autoTimer, leakedIntervals,
             currentTheme, autoTheme, logs, appAudioCtx, runs, started>>

playerVars == <<isPlaying, sourceNodeRef, sources, loops, pendingStarts,
                replays>>

mapVars == <<globalCities, cityLoads, sunPos, currentTime, timers, lifecycle>>

(***************************************************************************)
(* types.ts: AppState                                                      *)
(***************************************************************************)
IDLE == "IDLE"
FETCHING_WEATHER == "FETCHING_WEATHER"
GENERATING_NARRATIVE == "GENERATING_NARRATIVE"
GENERATING_MEDIA == "GENERATING_MEDIA"
PLAYING == "PLAYING"
ERROR == "ERROR"

AppState == {IDLE, FETCHING_WEATHER, GENERATING_NARRATIVE, GENERATING_MEDIA,
             PLAYING, ERROR}

(***************************************************************************)
(* Nullable values: <<>> is null, <<x>> is the value x.                    *)
(***************************************************************************)
Null == <<>>
Some(x) == <<x>>

(***************************************************************************)
(* Inputs.  UserCoords are coordinates a map click or a city marker can    *)
(* submit; RandomSamples are values of Math.random() in hundredths.        *)
(***************************************************************************)
UserCoords == {[lat |-> 70, lng |-> 0], [lat |-> 10, lng |-> 10]}
RandomSamples == {50}
Themes == {"LYNCH", "WES"}

\* App.tsx:124-125  (Math.random() * 160) - 80, (Math.random() * 360) - 180
RandomCoords ==
    {[lat |-> ((a * 160) \div 100) - 80, lng |-> ((b * 360) \div 100) - 180] :
        a \in RandomSamples, b \in RandomSamples}

(***************************************************************************)
(* Log lines (App.tsx:45-116, 227).  A line is its text pattern plus the   *)
(* value interpolated into it.                                             *)
(***************************************************************************)
LogLine(kind, detail) == [kind |-> kind, detail |-> detail]
MsgConnecting(c) == LogLine("Connecting to coordinates", Some(c))
MsgConditions == LogLine("Conditions received", Null)
MsgNarrative == LogLine("Narrative synthesized.", Null)
MsgGenerating == LogLine("Generating audiovisual hallucination...", Null)
MsgReady == LogLine("Ready. Playing transmission.", Null)
MsgSequenceEnded == LogLine("Sequence ended.", Null)
MsgWeatherFailed ==
    LogLine("Error: Unable to establish telemetry link (Weather Service Down).", Null)
MsgNarrativeFailed ==
    LogLine("Error: Neural synthesis failure (LLM Unresponsive).", Null)
MsgAudioFailed ==
    LogLine("Error: Audio frequency corruption (TTS Failed).", Null)
MsgSystemFailure(text) == LogLine("Error: System failure", Some([text |-> text]))

\* The catch block with its if-chain removed: userMsg keeps the value it
\* is initialised with (App.tsx:105).
UserMsgInitial(message) == LogLine("Transmission interrupted.", Null)

\* App.tsx:105-114: the catch block's message for a thrown error
UserMsg(message) ==
    IF message = "WEATHER_FAILED" THEN MsgWeatherFailed
    ELSE IF message = "NARRATIVE_FAILED" THEN MsgNarrativeFailed
    ELSE IF message = "AUDIO_FAILED" THEN MsgAudioFailed
    ELSE MsgSystemFailure(IF message = "" THEN "Unknown" ELSE message)

Min(a, b) == IF a < b THEN a ELSE b

\* The new line put after the old ones: [...prev, msg].slice(0, 5)
addLogAtEnd(prev, msg) ==
    SubSeq(prev \o <<msg>>, 1, Min(Len(prev) + 1, LogCap))

\* App.tsx:20  [msg, ...prev].slice(0, 5)
addLog(prev, msg) ==
    SubSeq(<<msg>> \o prev, 1, Min(Len(prev) + 1, LogCap))

(***************************************************************************)
(* App.tsx:34 the busy guard of handleSelectLocation.                      *)
(***************************************************************************)
\* The guard with one busy state forgotten.
AcceptsForgetsNarrative(s) == s # FETCHING_WEATHER /\ s # GENERATING_MEDIA

\* The guard without its PLAYING disjunct.
AcceptsIdleOrError(s) == s = IDLE \/ s = ERROR

\* The guard removed.
AcceptsAny(s) == s \in AppState

Accepts(s) == s = IDLE \/ s = PLAYING \/ s = ERROR

Busy(s) == s \in {FETCHING_WEATHER, GENERATING_NARRATIVE, GENERATING_MEDIA}

(***************************************************************************)
(* An in-flight processLocation: where it is suspended (pc), its argument  *)
(* and the values it closed over, and the two media promises.  The theme   *)
(* each gateway call was made with and the bundle that was active when the *)
(* run began (before) are kept as history.                                 *)
(***************************************************************************)
NewRun(c, th) ==
    [pc |-> "weather", coords |-> c, theme |-> th, narrative |-> "",
     speech |-> "none", image |-> "none",
     narrativeTheme |-> "none", speechTheme |-> "none", imageTheme |-> "none",
     before |-> content]

\* The theme read from the state as it is when the call is made.
ThemeSelectedNow(run, selected) == selected

\* App.tsx:60, 78, 79, 95: `currentTheme` inside processLocation is the
\* constant of the render whose closure is running, whatever theme is
\* selected by now.
ThemeSeenBy(run, selected) == run.theme

InFlight == DOMAIN runs

\* The history variable's value: the handler or continuation that ran last,
\* whether it took its success path, the source it acted on (draw: the
\* loop's source; 0 otherwise) and the settled image promise (mediaJoin).
OpNote(name, ok, s, note) == [op |-> name, ok |-> ok, src |-> s, note |-> note]
Op(name, ok) == OpNote(name, ok, 0, "")

\* A run that stays in flight after its continuation has returned.
DropNone(f, r) == f

Drop(f, r) == [x \in (DOMAIN f) \ {r} |-> f[x]]

(***************************************************************************)
(* LynchPlayer.tsx.  The component's refs and state as one record, so that *)
(* a commit can run the effect cleanup and the effect in sequence.         *)
(*   isPlaying : the isPlaying state                                       *)
(*   ref       : sourceNodeRef.current (0 for null)                       *)
(*   sources   : per source, its status and the bundle whose audio it      *)
(*               plays; "playing" is audible, "stopped" has had stop()     *)
(*               called and its ended event is still to be delivered       *)
(*   loops     : sources whose draw() has a frame scheduled                *)
(*   pending   : startPlayback calls suspended at await resume(), each     *)
(*               with the content of the render that created it            *)
(***************************************************************************)
Player ==
    [isPlaying |-> isPlaying, ref |-> sourceNodeRef, sources |-> sources,
     loops |-> loops, pending |-> pendingStarts]

\* LynchPlayer.tsx:25-38
stopPlayback(p) ==
    [p EXCEPT
       !.sources = IF p.ref # 0 /\ p.sources[p.ref].status = "playing"
                   THEN [p.sources EXCEPT ![p.ref].status = "stopped"]
                   ELSE p.sources,
       !.ref = 0,
       !.isPlaying = FALSE]

\* LynchPlayer.tsx:57-73: create and start a source for the closed-over
\* content, store it in the ref, set isPlaying, start the draw loop
beginSource(p, bundle) ==
    LET id == Len(p.sources) + 1 IN
    [p EXCEPT
       !.sources = Append(p.sources, [status |-> "playing", bundle |-> bundle]),
       !.ref = id,
       !.isPlaying = TRUE,
       !.loops = p.loops \cup {id}]

\* LynchPlayer.tsx:40-74 up to the first suspension.  seenPlaying is the
\* isPlaying of the render whose closure is called; suspended is whether the
\* audio context reports 'suspended'.
startPlayback(p, seenPlaying, bundle, suspended) ==
    IF seenPlaying THEN p
    ELSE IF suspended THEN [p EXCEPT !.pending = Append(p.pending, bundle)]
    ELSE beginSource(p, bundle)

\* LynchPlayer.tsx:18-23 and 76-82: the commit of a render with a new
\* content prop: the cleanup of the previous content's effect (none on
\* mount), then the autoplay effect with this render's startPlayback.
commitContent(p, mounted, bundle, suspended) ==
    startPlayback(IF mounted THEN stopPlayback(p) ELSE p,
                  p.isPlaying, bundle, suspended)

SetPlayer(p) ==
    /\ isPlaying' = p.isPlaying
    /\ sourceNodeRef' = p.ref
    /\ sources' = p.sources
    /\ loops' = p.loops
    /\ pendingStarts' = p.pending

\* The audio context's state as startPlayback can observe it: it stays
\* suspended while an earlier resume() has not settled.
CtxStates == IF pendingStarts # <<>> THEN {TRUE} ELSE BOOLEAN

Audible == {s \in DOMAIN sources : sources[s].status = "playing"}

\* The intervals of App.tsx:29 (city temperatures), WorldMap.tsx:41 (sun
\* position) and the city clock of WorldMap.tsx
TimerNames == {"cities", "sun", "clock"}

(***************************************************************************)
(* State after construction.                                               *)
(***************************************************************************)
Init ==
    /\ appState = IDLE
    /\ currentLocation = Null
    /\ content = Null
    /\ autoMode = FALSE
    /\ autoTimer = 0
    /\ leakedIntervals = 0
    /\ currentTheme = "LYNCH"
    /\ autoTheme = "LYNCH"
    /\ logs = <<>>
    /\ appAudioCtx = FALSE
    /\ runs = <<>>
    /\ started = 0
    /\ isPlaying = FALSE
    /\ sourceNodeRef = 0
    /\ sources = <<>>
    /\ loops = {}
    /\ pendingStarts = <<>>
    /\ replays = 0
    /\ globalCities = <<>>
    /\ cityLoads = 0
    /\ sunPos = Null
    /\ currentTime = Null
    /\ timers = [t \in TimerNames |-> 0]
    /\ lifecycle = "created"
    /\ lastOp = Op("init", TRUE)

(***************************************************************************)
(* App.tsx:42-49 processLocation up to `await fetchWeatherData(coords)`.   *)
(***************************************************************************)
BeginRun(c, th) ==
    /\ started < MaxStarts
    /\ started' = started + 1
    /\ appState' = FETCHING_WEATHER
    /\ logs' = addLog(logs, MsgConnecting(c))
    /\ runs' = runs @@ ((started + 1) :> NewRun(c, th))

\* App.tsx:33-40
handleSelectLocation(c) ==
    IF ~Accepts(appState)
    THEN /\ lastOp' = Op("handleSelectLocation", FALSE)
         /\ UNCHANGED <<mapVars, appVars, playerVars>>
    ELSE /\ currentLocation' = Some(c)
         /\ BeginRun(c, currentTheme)
         /\ lastOp' = Op("handleSelectLocation", TRUE)
         /\ UNCHANGED <<mapVars, content, autoMode, autoTimer, leakedIntervals, currentTheme, autoTheme,
                        appAudioCtx, playerVars>>

\* The catch block without its setAppState(AppState.ERROR).
FailKeepsState(r, message) ==
    /\ appState' = appState
    /\ logs' = addLog(logs, UserMsg(message))
    /\ runs' = Drop(runs, r)

\* App.tsx:101-117 the catch block
Fail(r, message) ==
    /\ appState' = ERROR
    /\ logs' = addLog(logs, UserMsg(message))
    /\ runs' = Drop(runs, r)

\* App.tsx:49-60 the continuation after fetchWeatherData settles
WeatherSettles(r, ok) ==
    /\ r \in InFlight
    /\ runs[r].pc = "weather"
    /\ IF ok
       THEN /\ appState' = GENERATING_NARRATIVE
            /\ logs' = addLog(logs, MsgConditions)
            /\ runs' = [runs EXCEPT ![r].pc = "narrative",
                                    ![r].narrativeTheme =
                                        ThemeSeenBy(runs[r], currentTheme)]
       ELSE Fail(r, "WEATHER_FAILED")
    /\ lastOp' = Op("weatherSettles", ok)
    /\ UNCHANGED <<mapVars, currentLocation, content, autoMode, autoTimer, leakedIntervals, currentTheme,
                   autoTheme, appAudioCtx, started, playerVars>>

NarrativeOutcomes == {"text", "empty", "throw"}

\* App.tsx:71 the message of the TypeError thrown when the browser has
\* neither AudioContext nor webkitAudioContext
CtxErrorText == "AudioContext is not a constructor"

\* The reply's text returned as it is.
NarrativeTextAsReplied(out) == IF out = "empty" THEN "" ELSE "monologue"

\* geminiService.ts:38  response.text || "Static..."
NarrativeText(out) == IF out = "empty" THEN "Static..." ELSE "monologue"

\* App.tsx:60-80 the continuation after generateNarrative settles, up to
\* `await Promise.allSettled([...])`.  ctxThrows: the AudioContext
\* constructor of line 71 throws.  lastOp notes the message of the error the
\* catch block received.
NarrativeSettles(r, out, ctxThrows) ==
    /\ r \in InFlight
    /\ runs[r].pc = "narrative"
    /\ ctxThrows => (out # "throw" /\ ~appAudioCtx)
    /\ IF out = "throw"
       THEN /\ Fail(r, "NARRATIVE_FAILED")
            /\ UNCHANGED appAudioCtx
       ELSE IF ctxThrows
       THEN /\ appState' = ERROR
            /\ logs' = addLog(addLog(addLog(logs, MsgNarrative), MsgGenerating),
                              UserMsg(CtxErrorText))
            /\ runs' = Drop(runs, r)
            /\ UNCHANGED appAudioCtx
       ELSE /\ appState' = GENERATING_MEDIA
            /\ logs' = addLog(addLog(logs, MsgNarrative), MsgGenerating)
            /\ appAudioCtx' = TRUE
            /\ runs' = [runs EXCEPT ![r].pc = "media",
                                    ![r].narrative = NarrativeText(out),
                                    ![r].speech = "pending",
                                    ![r].image = "pending",
                                    ![r].speechTheme =
                                        ThemeSeenBy(runs[r], currentTheme),
                                    ![r].imageTheme =
                                        ThemeSeenBy(runs[r], currentTheme)]
    /\ lastOp' = OpNote("narrativeSettles", out # "throw" /\ ~ctxThrows, 0,
                        IF out = "throw" THEN "NARRATIVE_FAILED"
                        ELSE IF ctxThrows THEN CtxErrorText ELSE "")
    /\ UNCHANGED <<mapVars, currentLocation, content, autoMode, autoTimer, leakedIntervals, currentTheme,
                   autoTheme, started, playerVars>>

\* geminiService.ts:89-114 generateSceneryImage settles: fulfilled with a
\* data URI, fulfilled with null (no inline part, or the model call threw
\* inside the try), or rejected (a throw before the try, lines 90-91)
ImageOutcomes == {"url", "null", "rejected"}

\* geminiService.ts:50-78 generateSpeech settles: fulfilled with a decoded
\* buffer, or rejected (the call throws, or no audio payload is returned)
SpeechOutcomes == {"fulfilled", "rejected"}

\* Promise.all in place of Promise.allSettled: the first rejection settles
\* the pair.
AllSettledRace(run) ==
    \/ run.speech = "rejected"
    \/ run.image = "rejected"
    \/ (run.speech # "pending" /\ run.image # "pending")

\* App.tsx:77 Promise.allSettled resolves once both promises have settled
AllSettled(run) == run.speech # "pending" /\ run.image # "pending"

\* The audio failure taken as fatal only when the image failed too.
SpeechRejectedUnlessImage(run) == run.speech = "rejected" /\ run.image # "url"

\* Either rejection taken as fatal.
AnyRejected(run) == run.speech = "rejected" \/ run.image = "rejected"

\* App.tsx:82  audioBufferResult.status === 'rejected'
SpeechRejected(run) == run.speech = "rejected"

\* App.tsx:87
FinalImageUrl(run, r) == IF run.image = "url" THEN Some(r) ELSE Null

\* App.tsx:89-96
Bundle(run, r) ==
    [run |-> r,
     narrativeText |-> run.narrative,
     audioBuffer |-> Some(r),
     imageUrl |-> FinalImageUrl(run, r),
     location |-> run.coords,
     themeId |-> ThemeSeenBy(run, currentTheme)]

\* A continuation whose setAppState(PLAYING) is committed while the bundle
\* of setContent is not.
MediaJoinStateFirst(r, run) ==
    /\ IF SpeechRejected(run)
       THEN /\ Fail(r, "AUDIO_FAILED")
            /\ UNCHANGED <<content, playerVars>>
       ELSE /\ content' = content
            /\ appState' = PLAYING
            /\ logs' = addLog(logs, MsgReady)
            /\ runs' = Drop(runs, r)
            /\ UNCHANGED playerVars
    /\ lastOp' = OpNote("mediaJoin", run.speech = "fulfilled", 0, run.image)

\* App.tsx:82-99 the continuation after Promise.allSettled, and the commit
\* of the render it causes (LynchPlayer mounts, or sees a new content).
\* run is the record of r with both promises settled.
MediaJoin(r, run) ==
    /\ IF SpeechRejected(run)
       THEN /\ Fail(r, "AUDIO_FAILED")
            /\ UNCHANGED <<content, playerVars>>
       ELSE /\ content' = Some(Bundle(run, r))
            /\ appState' = PLAYING
            /\ logs' = addLog(logs, MsgReady)
            /\ runs' = Drop(runs, r)
            /\ \E suspended \in CtxStates :
                 SetPlayer(commitContent(Player, content # Null, r, suspended))
            /\ UNCHANGED replays
    /\ lastOp' = OpNote("mediaJoin", run.speech = "fulfilled", 0, run.image)

\* One of the two media promises of r settles.  The continuation of
\* Promise.allSettled is a microtask of the settlement that completes the
\* pair: it runs before any other event is handled.
MediaSettles(r, run) ==
    /\ IF AllSettled(run)
       THEN MediaJoin(r, run)
       ELSE /\ runs' = [runs EXCEPT ![r] = run]
            /\ lastOp' = Op("mediaSettles", FALSE)
            /\ UNCHANGED <<appState, content, logs, playerVars>>
    /\ UNCHANGED <<mapVars, currentLocation, autoMode, autoTimer, leakedIntervals, currentTheme,
                   autoTheme, appAudioCtx, started>>

SpeechSettles(r, out) ==
    /\ r \in InFlight
    /\ runs[r].pc = "media"
    /\ runs[r].speech = "pending"
    /\ MediaSettles(r, [runs[r] EXCEPT !.speech = out])

ImageSettles(r, out) ==
    /\ r \in InFlight
    /\ runs[r].pc = "media"
    /\ runs[r].image = "pending"
    /\ MediaSettles(r, [runs[r] EXCEPT !.image = out])

\* The auto-drift intervals: the one whose id autoModeTimerRef holds
\* (timer: its delay, 0 if it is cancelled or there is none) and the number
\* of scheduled ones whose id the ref has lost.
AutoIntervals == [timer |-> autoTimer, leaked |-> leakedIntervals]

SetAutoIntervals(t) ==
    /\ autoTimer' = t.timer
    /\ leakedIntervals' = t.leaked

LiveAutoIntervals == (IF autoTimer # 0 THEN 1 ELSE 0) + leakedIntervals

\* A clearInterval that cancels nothing.
clearAutoIntervalNoOp(t) == t

\* App.tsx:132-134, 138  if (autoModeTimerRef.current)
\* clearInterval(autoModeTimerRef.current)
clearAutoInterval(t) == [t EXCEPT !.timer = 0]

\* App.tsx:130  autoModeTimerRef.current = setInterval(runAutoLoop, 60000):
\* an interval still scheduled under the id the ref held is out of reach
setAutoInterval(t) ==
    [timer |-> AutoIntervalMs,
     leaked |-> t.leaked + (IF t.timer # 0 THEN 1 ELSE 0)]

\* The effect without clearInterval: switching off leaves the interval.
toggleAutoModeKeepsInterval(c) ==
    /\ autoMode' = ~autoMode
    /\ IF ~autoMode
       THEN /\ BeginRun(c, currentTheme)
            /\ SetAutoIntervals(setAutoInterval(AutoIntervals))
            /\ autoTheme' = currentTheme
            /\ lastOp' = Op("toggleAutoMode", TRUE)
       ELSE /\ SetAutoIntervals(AutoIntervals)
            /\ lastOp' = Op("toggleAutoMode", FALSE)
            /\ UNCHANGED <<appState, logs, runs, started, autoTheme>>
    /\ UNCHANGED <<mapVars, currentLocation, content, currentTheme, appAudioCtx,
                   playerVars>>

\* App.tsx:121-141 the effect of a change of autoMode: the previous
\* effect's cleanup, then runAutoLoop() and setInterval when enabled
toggleAutoMode(c) ==
    /\ autoMode' = ~autoMode
    /\ IF ~autoMode
       THEN /\ BeginRun(c, currentTheme)
            /\ SetAutoIntervals(setAutoInterval(clearAutoInterval(AutoIntervals)))
            /\ autoTheme' = currentTheme
            /\ lastOp' = Op("toggleAutoMode", TRUE)
       ELSE /\ SetAutoIntervals(clearAutoInterval(clearAutoInterval(AutoIntervals)))
            /\ lastOp' = Op("toggleAutoMode", FALSE)
            /\ UNCHANGED <<appState, logs, runs, started, autoTheme>>
    /\ UNCHANGED <<mapVars, currentLocation, content, currentTheme, appAudioCtx,
                   playerVars>>

\* App.tsx:123-130 a tick of the 60 s interval
autoTick(c) ==
    /\ LiveAutoIntervals > 0
    /\ BeginRun(c, autoTheme)
    /\ lastOp' = Op("autoTick", TRUE)
    /\ UNCHANGED <<mapVars, currentLocation, content, autoMode, autoTimer, leakedIntervals, currentTheme,
                   autoTheme, appAudioCtx, playerVars>>

\* App.tsx:162
setCurrentTheme(t) ==
    /\ currentTheme' = t
    /\ lastOp' = Op("setCurrentTheme", TRUE)
    /\ UNCHANGED <<mapVars, appState, currentLocation, content, autoMode, autoTimer, leakedIntervals,
                   autoTheme, logs, appAudioCtx, runs, started, playerVars>>

\* LynchPlayer.tsx:165-172 the Replay button, rendered while ~isPlaying
replayClick(suspended) ==
    /\ content # Null
    /\ ~isPlaying
    /\ replays < MaxReplays
    /\ replays' = replays + 1
    /\ SetPlayer(startPlayback(Player, isPlaying, content[1].run, suspended))
    /\ lastOp' = Op("replayClick", ~suspended)
    /\ UNCHANGED <<mapVars, appVars>>

\* LynchPlayer.tsx:48-73 the continuation after `await resume()`
resumeSettles ==
    /\ pendingStarts # <<>>
    /\ SetPlayer(beginSource([Player EXCEPT !.pending = Tail(pendingStarts)],
                             Head(pendingStarts)))
    /\ lastOp' = Op("resumeSettles", TRUE)
    /\ UNCHANGED <<mapVars, appVars, replays>>

\* LynchPlayer.tsx:62-66 source.onended, and App.tsx:226-228 onEnded.
\* The event is delivered when the buffer has played to its end, and after
\* stop() has ended the source.
onended(s, natural) ==
    /\ s \in DOMAIN sources
    /\ sources[s].status = (IF natural THEN "playing" ELSE "stopped")
    /\ sources' = [sources EXCEPT ![s].status = "ended"]
    /\ isPlaying' = FALSE
    /\ logs' = addLog(logs, MsgSequenceEnded)
    /\ lastOp' = OpNote("onended", natural, s, "")
    /\ UNCHANGED <<mapVars, appState, currentLocation, content, autoMode, autoTimer, leakedIntervals,
                   currentTheme, autoTheme, appAudioCtx, runs, started,
                   sourceNodeRef, loops, pendingStarts, replays>>

\* LynchPlayer.tsx:98-123 one animation frame of the loop started for l
draw(l) ==
    /\ l \in loops
    /\ IF sourceNodeRef = 0
       THEN /\ loops' = loops \ {l}
            /\ lastOp' = OpNote("draw", FALSE, l, "")
       ELSE /\ loops' = loops
            /\ lastOp' = OpNote("draw", TRUE, l, "")
    /\ UNCHANGED <<mapVars, appVars, isPlaying, sourceNodeRef, sources, pendingStarts,
                   replays>>

RunIds == 1..MaxStarts
SourceIds == 1..(MaxStarts + MaxReplays)

\* The continuations of run r, with the narrative gateway's replies drawn
\* from the set replies.
RunStepWith(r, replies) ==
    \/ \E ok \in BOOLEAN : WeatherSettles(r, ok)
    \/ \E out \in replies, ctxThrows \in BOOLEAN :
         NarrativeSettles(r, out, ctxThrows)
    \/ \E out \in SpeechOutcomes : SpeechSettles(r, out)
    \/ \E out \in ImageOutcomes : ImageSettles(r, out)

\* The pipeline's control flow sees a narrative call fulfil or reject; the
\* text of a fulfilled one is carried into the bundle as it is.
PipelineStep(r) == RunStepWith(r, {"text", "throw"})

\* Every reply of the narrative gateway, the empty one included.
RunStep(r) == RunStepWith(r, NarrativeOutcomes)

(***************************************************************************)
(* The generation pipeline: submissions, auto-drift and gateway outcomes,  *)
(* with the commit that hands each bundle to the player.                   *)
(***************************************************************************)
PipelineNext ==
    \/ \E c \in UserCoords : handleSelectLocation(c)
    \/ \E c \in RandomCoords : toggleAutoMode(c)
    \/ \E c \in RandomCoords : autoTick(c)
    \/ \E r \in RunIds : PipelineStep(r)

PipelineSpec == Init /\ [][PipelineNext]_vars

\* Every gateway call settles, and a settled promise's continuation runs.
FairSpec == PipelineSpec /\ \A r \in RunIds : WF_vars(PipelineStep(r))

(***************************************************************************)
(* The pipeline together with the playback events of LynchPlayer.          *)
(***************************************************************************)
PlaybackNext ==
    \/ \E suspended \in CtxStates : replayClick(suspended)
    \/ resumeSettles
    \/ \E s \in SourceIds, natural \in BOOLEAN : onended(s, natural)
    \/ \E l \in SourceIds : draw(l)

Next ==
    \/ PipelineNext
    \/ PlaybackNext

Spec == Init /\ [][Next]_vars

(***************************************************************************)
(* User submissions with every reply of the narrative gateway.             *)
(***************************************************************************)
NarrativeNext ==
    \/ \E c \in UserCoords : handleSelectLocation(c)
    \/ \E r \in RunIds : RunStep(r)

NarrativeSpec == Init /\ [][NarrativeNext]_vars

(***************************************************************************)
(* The player under user submissions alone (auto-drift stays off).         *)
(***************************************************************************)
UserNext ==
    \/ \E c \in UserCoords : handleSelectLocation(c)
    \/ \E r \in RunIds : PipelineStep(r)
    \/ PlaybackNext

UserSpec == Init /\ [][UserNext]_vars

\* requestAnimationFrame runs every callback it was given: a render loop
\* that is still rescheduling itself gets its next frame.
FramesSpec == UserSpec /\ \A l \in SourceIds : WF_vars(draw(l))

(***************************************************************************)
(* The log buffer by itself: addLog called with a series of lines.  The    *)
(* n-th line carries its number n; lastOp.src is the number of the line    *)
(* appended last.                                                          *)
(***************************************************************************)
LogKinds == {MsgConditions.kind, MsgNarrative.kind, MsgSequenceEnded.kind}

NumberedLine(kind, n) == LogLine(kind, Some([seq |-> n]))

Appended == IF lastOp.op = "addLog" THEN lastOp.src ELSE 0

\* App.tsx:20 one call of addLog
appendLog(kind) ==
    /\ Appended < MaxAppends
    /\ logs' = addLog(logs, NumberedLine(kind, Appended + 1))
    /\ lastOp' = OpNote("addLog", TRUE, Appended + 1, "")
    /\ UNCHANGED <<mapVars, appState, currentLocation, content, autoMode, autoTimer, leakedIntervals,
                   currentTheme, autoTheme, appAudioCtx, runs, started,
                   playerVars>>

LogNext == \E kind \in LogKinds : appendLog(kind)

LogSpec == Init /\ [][LogNext]_vars

(***************************************************************************)
(* weatherService.ts: getTerrainDescription, applied to coordinates on and *)
(* next to each of its thresholds.  lastOp.src is the argument, lastOp.note *)
(* the label returned.                                                     *)
(***************************************************************************)
Abs(x) == IF x < 0 THEN -x ELSE x

\* The first rule with an inclusive comparison.
getTerrainDescriptionInclusive(lat, lng) ==
    IF Abs(lat) >= 60 THEN "frozen tundra"
    ELSE IF Abs(lat) < 20 /\ Abs(lng) < 30 THEN "dense jungle"
    ELSE IF Abs(lat) > 20 /\ Abs(lat) < 40 /\ Abs(lng) > 100
    THEN "lonely desert highway"
    ELSE "an industrial wasteland"

\* weatherService.ts:61-66
getTerrainDescription(lat, lng) ==
    IF Abs(lat) > 60 THEN "frozen tundra"
    ELSE IF Abs(lat) < 20 /\ Abs(lng) < 30 THEN "dense jungle"
    ELSE IF Abs(lat) > 20 /\ Abs(lat) < 40 /\ Abs(lng) > 100
    THEN "lonely desert highway"
    ELSE "an industrial wasteland"

TerrainLats ==
    {-90, -70, -61, -60, -59, -41, -40, -39, -30, -21, -20, -19, -10, 0,
     10, 19, 20, 21, 30, 39, 40, 41, 59, 60, 61, 70, 90}

TerrainLngs ==
    {-180, -150, -120, -101, -100, -99, -31, -30, -29, -10, 0,
     10, 29, 30, 31, 99, 100, 101, 120, 150, 180}

\* App.tsx:74 one call of getTerrainDescription
terrainQuery(lat, lng) ==
    /\ lastOp' = OpNote("getTerrainDescription", TRUE,
                        [lat |-> lat, lng |-> lng],
                        getTerrainDescription(lat, lng))
    /\ UNCHANGED <<mapVars, appVars, playerVars>>

TerrainNext == \E lat \in TerrainLats, lng \in TerrainLngs : terrainQuery(lat, lng)

TerrainSpec == Init /\ [][TerrainNext]_vars

(***************************************************************************)
(* The arithmetic of the JavaScript Number type (IEEE 754 binary64), as    *)
(* WorldMap.tsx uses it.  First, natural numbers of any size: sequences of *)
(* digits in base 2^15, least significant first, without leading zeros;    *)
(* <<>> is 0.                                                              *)
(***************************************************************************)
Base == 32768
DigitBits == 15

RECURSIVE Pow2(_)
Pow2(n) == IF n = 0 THEN 1 ELSE 2 * Pow2(n - 1)

RECURSIVE SmallBitLen(_)
SmallBitLen(n) == IF n = 0 THEN 0 ELSE 1 + SmallBitLen(n \div 2)

RECURSIVE Trim(_)
Trim(X) == IF X # <<>> /\ X[Len(X)] = 0 THEN Trim(SubSeq(X, 1, Len(X) - 1)) ELSE X

RECURSIVE FromInt(_)
FromInt(n) == IF n = 0 THEN <<>> ELSE <<n % Base>> \o FromInt(n \div Base)

BitLen(X) == IF X = <<>> THEN 0 ELSE (Len(X) - 1) * DigitBits + SmallBitLen(X[Len(X)])

RECURSIVE MulCarry(_, _, _)
MulCarry(X, m, carry) ==
    IF X = <<>> THEN FromInt(carry)
    ELSE LET p == Head(X) * m + carry
         IN <<p % Base>> \o MulCarry(Tail(X), m, p \div Base)

\* X * m for a small m
MulSmall(X, m) == Trim(MulCarry(X, m, 0))

\* The digits of X \div d from the most significant down, with the remainder
RECURSIVE DivRem(_, _, _)
DivRem(X, d, i) ==
    IF i > Len(X) THEN [q |-> <<>>, r |-> 0]
    ELSE LET hi == DivRem(X, d, i + 1)
             cur == hi.r * Base + X[i]
         IN [q |-> <<cur \div d>> \o hi.q, r |-> cur % d]

\* X \div d and X % d for a small d
DivSmall(X, d) == LET qr == DivRem(X, d, 1) IN [q |-> Trim(qr.q), r |-> qr.r]

Zeros(k) == [i \in 1..k |-> 0]

\* X * 2^s
ShiftLeft(X, s) ==
    IF X = <<>> THEN <<>>
    ELSE Zeros(s \div DigitBits) \o MulSmall(X, Pow2(s % DigitBits))

\* X \div 2^s, and whether a one bit was shifted out
ShiftRight(X, s) ==
    LET k == s \div DigitBits
        low == SubSeq(X, 1, IF k < Len(X) THEN k ELSE Len(X))
        rest == SubSeq(X, k + 1, Len(X))
        qr == DivSmall(rest, Pow2(s % DigitBits))
    IN [q |-> qr.q, lost |-> qr.r # 0 \/ \E i \in DOMAIN low : low[i] # 0]

\* -1, 0, 1 as X is less than, equal to, greater than Y
RECURSIVE CmpFrom(_, _, _)
CmpFrom(X, Y, i) ==
    IF i = 0 THEN 0
    ELSE IF X[i] < Y[i] THEN -1
    ELSE IF X[i] > Y[i] THEN 1
    ELSE CmpFrom(X, Y, i - 1)

Cmp(X, Y) ==
    IF Len(X) < Len(Y) THEN -1
    ELSE IF Len(X) > Len(Y) THEN 1
    ELSE CmpFrom(X, Y, Len(X))

RECURSIVE AddCarry(_, _, _)
AddCarry(X, Y, carry) ==
    IF X = <<>> /\ Y = <<>> THEN FromInt(carry)
    ELSE LET a == IF X = <<>> THEN 0 ELSE Head(X)
             b == IF Y = <<>> THEN 0 ELSE Head(Y)
             t == a + b + carry
         IN <<t % Base>> \o AddCarry(IF X = <<>> THEN X ELSE Tail(X),
                                     IF Y = <<>> THEN Y ELSE Tail(Y), t \div Base)

Add(X, Y) == Trim(AddCarry(X, Y, 0))

RECURSIVE SubBorrow(_, _, _)
SubBorrow(X, Y, borrow) ==
    IF X = <<>> THEN <<>>
    ELSE LET b == IF Y = <<>> THEN 0 ELSE Head(Y)
             t == Head(X) - b - borrow
         IN <<(t + Base) % Base>>
              \o SubBorrow(Tail(X), IF Y = <<>> THEN Y ELSE Tail(Y),
                           IF t < 0 THEN 1 ELSE 0)

\* X - Y for X >= Y
Sub(X, Y) == Trim(SubBorrow(X, Y, 0))

IsOdd(X) == X # <<>> /\ X[1] % 2 = 1

(***************************************************************************)
(* binary64 numbers: sign s (1, -1, or 0 for zero), significand m of       *)
(* exactly 53 bits, exponent e: the value is s * m * 2^e.  Every operation *)
(* rounds its exact result to nearest, ties to even.                       *)
(***************************************************************************)
Precision == 53
FZero == [s |-> 0, m |-> <<>>, e |-> 0]

\* Q * 2^e, plus a fraction of 2^e that is nonzero iff sticky, rounded to
\* nearest, ties to even
RoundBits(sign, Q, sticky, e) ==
    LET k == BitLen(Q) - Precision IN
    IF k <= 0
    THEN [s |-> sign, m |-> ShiftLeft(Q, 0 - k), e |-> e + k]
    ELSE LET cut == ShiftRight(Q, k)
             half == ShiftRight(Q, k - 1)
             roundBit == IsOdd(half.q)
             rest == half.lost \/ sticky
             up == roundBit /\ (rest \/ IsOdd(cut.q))
             m1 == IF up THEN Add(cut.q, <<1>>) ELSE cut.q
         IN IF BitLen(m1) > Precision
            THEN [s |-> sign, m |-> ShiftRight(m1, 1).q, e |-> e + k + 1]
            ELSE [s |-> sign, m |-> m1, e |-> e + k]

\* fl(sign * (N / d) * 2^e) for N > 0 and a small d
RoundQuotient(sign, N, d, e) ==
    IF N = <<>> THEN FZero
    ELSE LET need == (Precision + 2 + SmallBitLen(d)) - BitLen(N)
             s == IF need > 0 THEN need ELSE 0
             qr == DivSmall(ShiftLeft(N, s), d)
         IN RoundBits(sign, qr.q, qr.r # 0, e - s)

\* fl(a / d) for integers a >= 0, d > 0
FDivInts(a, d) == RoundQuotient(1, FromInt(a), d, 0)

\* fl(f * m) for an integer m > 0
FMul(f, m) == RoundQuotient(f.s, MulSmall(f.m, m), 1, f.e)

\* fl(f / d) for an integer d > 0
FDiv(f, d) == RoundQuotient(f.s, f.m, d, f.e)

Sign(n) == IF n > 0 THEN 1 ELSE IF n < 0 THEN -1 ELSE 0
Mag(n) == IF n < 0 THEN 0 - n ELSE n

\* The integer c >= 0 in units of 2^e (e <= 0)
Units(c, e) == ShiftLeft(FromInt(c), 0 - e)

\* fl(f - c) for f >= 0 with f.e <= 0 and an integer c >= 0
FSub(f, c) ==
    IF f.s = 0 THEN RoundQuotient(0 - Sign(c), FromInt(c), 1, 0)
    ELSE LET C == Units(c, f.e)
             o == Cmp(f.m, C)
         IN IF o = 0 THEN FZero
            ELSE IF o > 0 THEN RoundBits(1, Sub(f.m, C), FALSE, f.e)
            ELSE RoundBits(-1, Sub(C, f.m), FALSE, f.e)

FNeg(f) == [f EXCEPT !.s = 0 - f.s]

\* fl(f + c) for an integer c of either sign and f zero or with f.e <= 0
FPlusInt(f, c) ==
    IF c = 0 THEN f
    ELSE IF f.s = 0 THEN RoundQuotient(Sign(c), FromInt(Mag(c)), 1, 0)
    ELSE LET C == Units(Mag(c), f.e)
             o == Cmp(f.m, C)
         IN IF f.s = Sign(c) THEN RoundBits(f.s, Add(f.m, C), FALSE, f.e)
            ELSE IF o = 0 THEN FZero
            ELSE IF o > 0 THEN RoundBits(f.s, Sub(f.m, C), FALSE, f.e)
            ELSE RoundBits(Sign(c), Sub(C, f.m), FALSE, f.e)

\* f < c and f > c for an integer c
FLtInt(f, c) == FPlusInt(f, 0 - c).s = -1
FGtInt(f, c) == FPlusInt(f, 0 - c).s = 1

\* f = n for an integer n
FEqInt(f, n) ==
    /\ f.s = Sign(n)
    /\ n # 0 => (f.e <= 0 /\ f.m = Units(Mag(n), f.e))

\* |f| <= c for an integer c >= 0
FMagLeq(f, c) == f.s = 0 \/ (f.e <= 0 /\ Cmp(f.m, Units(c, f.e)) <= 0)

\* |f - n| <= 2^(-t) for an integer n
FNear(f, n, t) ==
    IF f.s = 0 THEN n = 0
    ELSE /\ f.e <= 0 - t
         /\ LET C == Units(Mag(n), f.e)
                diff == IF f.s = Sign(n)
                        THEN (IF Cmp(f.m, C) >= 0 THEN Sub(f.m, C) ELSE Sub(C, f.m))
                        ELSE Add(f.m, C)
            IN Cmp(diff, ShiftLeft(<<1>>, (0 - t) - f.e)) <= 0

(***************************************************************************)
(* WorldMap.tsx: the coordinate mapper.                                    *)
(***************************************************************************)
\* The click transform with the longitude scaled like the latitude.
geoFromNormHalfSpan(normX, normY) ==
    [lat |-> FNeg(FSub(FMul(normY, 180), 90)),
     lng |-> FSub(FMul(normX, 180), 180)]

\* WorldMap.tsx:53-54  lng = (normX * 360) - 180, lat = 90 - (normY * 180)
geoFromNorm(normX, normY) ==
    [lat |-> FNeg(FSub(FMul(normY, 180), 90)),
     lng |-> FSub(FMul(normX, 360), 180)]

\* getPos with the latitude measured from the south pole.
getPosSouthUp(lat, lng) ==
    [left |-> FMul(FDivInts(lng + 180, 360), 100),
     top |-> FMul(FDivInts(lat + 90, 180), 100)]

\* WorldMap.tsx:79-82 the numbers of the two percentages, for integer
\* lat and lng
getPos(lat, lng) ==
    [left |-> FMul(FDivInts(lng + 180, 360), 100),
     top |-> FMul(FDivInts(90 - lat, 180), 100)]

\* WorldMap.tsx:48-54 the coordinate of a click at offset (x, y) in a map
\* of the given size
clickCoords(x, y, width, height) ==
    geoFromNorm(FDivInts(x, width), FDivInts(y, height))

\* Marker coordinates, map widths (the map is twice as wide as high) and
\* the offsets of clicks in a map of width w.
MarkerLats == {5 * k : k \in -18..18}
MarkerLngs == {5 * k : k \in -36..36}
MapWidths == {8, 360, 1000}
Offsets(w) == {0, 1, w \div 3, w \div 2, w - 1, w}

\* A marker is placed by getPos and the click transform is applied to its
\* position, percent / 100.  The mapper reads no state: each input is tried
\* once, on the state after construction.
markerRoundTrip(lat, lng) ==
    /\ lastOp.op = "init"
    /\ lastOp' = OpNote("markerRoundTrip", TRUE, [lat |-> lat, lng |-> lng],
                        LET pos == getPos(lat, lng)
                        IN geoFromNorm(FDiv(pos.left, 100), FDiv(pos.top, 100)))
    /\ UNCHANGED <<mapVars, appVars, playerVars>>

\* WorldMap.tsx:79-82 one call of getPos, as made for a marker
placeMarker(lat, lng) ==
    /\ lastOp.op = "init"
    /\ lastOp' = OpNote("getPos", TRUE, [lat |-> lat, lng |-> lng],
                        getPos(lat, lng))
    /\ UNCHANGED <<mapVars, appVars, playerVars>>

\* WorldMap.tsx:45-57 up to the call of onSelectLocation
mapClick(x, y, width) ==
    /\ lastOp.op = "init"
    /\ lastOp' = OpNote("mapClick", TRUE, [x |-> x, y |-> y, width |-> width],
                        clickCoords(x, y, width, width \div 2))
    /\ UNCHANGED <<mapVars, appVars, playerVars>>

MapperNext ==
    \/ \E lat \in MarkerLats, lng \in MarkerLngs : markerRoundTrip(lat, lng)
    \/ \E lat \in MarkerLats, lng \in MarkerLngs : placeMarker(lat, lng)
    \/ \E w \in MapWidths : \E x \in Offsets(w), y \in Offsets(w \div 2) :
         mapClick(x, y, w)

MapperSpec == Init /\ [][MapperNext]_vars

(***************************************************************************)
(* WorldMap.tsx: the sun position, the city clock and their intervals;     *)
(* App.tsx:22-31: the city temperatures and their interval.                *)
(***************************************************************************)
SunIntervalMs == 600000
ClockIntervalMs == 60000
CitiesIntervalMs == 300000

\* WorldMap.tsx:27  if (sunLng > 180) sunLng -= 360
wrapAbove(lng) == IF FGtInt(lng, 180) THEN FPlusInt(lng, -360) ELSE lng

\* WorldMap.tsx:26  if (sunLng < -180) sunLng += 360
wrapBelow(lng) == IF FLtInt(lng, -180) THEN FPlusInt(lng, 360) ELSE lng

\* WorldMap.tsx:21  now.getUTCHours() + now.getUTCMinutes() / 60
utcHours(hour, minute) == FPlusInt(FDivInts(minute, 60), hour)

\* The longitude with midnight in place of noon as its origin.
sunLngFromMidnight(hour, minute) ==
    wrapAbove(wrapBelow(
        FMul(FNeg(FPlusInt(utcHours(hour, minute), -24)), 15)))

\* WorldMap.tsx:21-27 sunLng for the UTC hour and minute of `now`
sunLng(hour, minute) ==
    wrapAbove(wrapBelow(
        FMul(FNeg(FPlusInt(utcHours(hour, minute), -12)), 15)))

\* WorldMap.tsx:19-38 the value calculateSunPosition stores.  The latitude
\* (a sine of the day of the year) is not computed: it is kept as a token.
calculateSunPosition(hour, minute) ==
    Some([lat |-> "declination", lng |-> sunLng(hour, minute)])

Hours == 0..23
Minutes == 0..59

\* Times of day at which an interval's callback is tried.
TickTimes ==
    {[hour |-> 0, minute |-> 0], [hour |-> 0, minute |-> 1],
     [hour |-> 11, minute |-> 59], [hour |-> 12, minute |-> 0],
     [hour |-> 12, minute |-> 1], [hour |-> 23, minute |-> 59]}

\* The first render and the effects of its commit, at a given UTC time:
\* App.tsx:23-31 (loadGlobalData() and its interval), WorldMap.tsx:18-43
\* (calculateSunPosition() and its interval) and the city clock (initial
\* time and its interval).  The auto-drift effect finds autoMode false.
mount(hour, minute) ==
    /\ lifecycle = "created"
    /\ lifecycle' = "mounted"
    /\ cityLoads' = cityLoads + 1
    /\ sunPos' = calculateSunPosition(hour, minute)
    /\ currentTime' = Some([hour |-> hour, minute |-> minute])
    /\ timers' = [t \in TimerNames |->
                    IF t = "cities" THEN CitiesIntervalMs
                    ELSE IF t = "sun" THEN SunIntervalMs ELSE ClockIntervalMs]
    /\ lastOp' = OpNote("mount", TRUE, [hour |-> hour, minute |-> minute], "")
    /\ UNCHANGED <<appVars, playerVars, globalCities>>

\* WorldMap.tsx:41 a tick of the sun interval
sunTick(hour, minute) ==
    /\ timers["sun"] # 0
    /\ sunPos' = calculateSunPosition(hour, minute)
    /\ lastOp' = OpNote("sunTick", TRUE, [hour |-> hour, minute |-> minute], "")
    /\ UNCHANGED <<appVars, playerVars, globalCities, cityLoads, currentTime,
                   timers, lifecycle>>

SunNext ==
    \/ \E hour \in Hours, minute \in Minutes : mount(hour, minute)
    \/ \E t \in TickTimes : sunTick(t.hour, t.minute)

SunSpec == Init /\ [][SunNext]_vars

(***************************************************************************)
(* weatherService fetchGlobalTemperatures and App.tsx:23-31 loadGlobalData *)
(***************************************************************************)
\* constants.ts:22-35, coordinates in hundredths of a degree
MAJOR_CITIES ==
    << [name |-> "LA",  lat |-> 3405,  lng |-> -11824],
       [name |-> "NY",  lat |-> 4071,  lng |-> -7400],
       [name |-> "LDN", lat |-> 5150,  lng |-> -12],
       [name |-> "TKY", lat |-> 3567,  lng |-> 13965],
       [name |-> "SYD", lat |-> -3386, lng |-> 15120],
       [name |-> "MOS", lat |-> 5575,  lng |-> 3761],
       [name |-> "RIO", lat |-> -2290, lng |-> -4317],
       [name |-> "CAI", lat |-> 3004,  lng |-> 3123],
       [name |-> "MUM", lat |-> 1907,  lng |-> 7287],
       [name |-> "PAR", lat |-> 4885,  lng |-> 235],
       [name |-> "KEF", lat |-> 6400,  lng |-> -2256],
       [name |-> "ANT", lat |-> -7525, lng |-> 0] >>

\* An entry of the response array: "ok" has current.temperature_2m, in
\* "noTemperature" current is an object without it, in "noCurrent" the entry
\* has no current, "null" is a null entry.
EntryKinds == {"ok", "noTemperature", "noCurrent", "null"}
Entry(kind, i) ==
    [kind |-> kind, temperature |-> IF kind = "ok" THEN Some(10 + i) ELSE Null]

ArrayLengths == {0, 1, 2, 12, 13}

\* The array of n entries, all "ok" except the one at index bad (if any).
RECURSIVE Entries(_, _, _)
Entries(n, bad, kind) ==
    IF n = 0 THEN <<>>
    ELSE Append(Entries(n - 1, bad, kind),
                Entry(IF n = bad THEN kind ELSE "ok", n))

\* data.map((d, i) => ...) of part_001:46-51 over the first n entries
RECURSIVE mapEntries(_, _)
mapEntries(entries, n) ==
    IF n = 0 THEN <<>>
    ELSE Append(mapEntries(entries, n - 1),
                [name |-> MAJOR_CITIES[n].name, lat |-> MAJOR_CITIES[n].lat,
                 lng |-> MAJOR_CITIES[n].lng,
                 temperature |-> entries[n].temperature])

\* What the request can come to: fetch rejects, a status that is not ok,
\* a body that is not JSON, a JSON body that is no array, an array.
Responses ==
    {[kind |-> k, entries |-> <<>>] : k \in {"throws", "notOk", "badJson", "object"}}
    \cup {[kind |-> "array", entries |-> Entries(n, bad, k)] :
            n \in ArrayLengths, bad \in 0..13, k \in EntryKinds \ {"ok"}}

\* The two ways an async function's promise settles.
Fulfilled(value) == [rejected |-> FALSE, value |-> value]
Rejected == [rejected |-> TRUE, value |-> <<>>]

\* d.current.temperature_2m throws a TypeError on this entry
Throws(entry) == entry.kind \in {"noCurrent", "null"}

\* part_001:27-59.  MAJOR_CITIES[i].name throws for an index past the list.
fetchGlobalTemperatures(response) ==
    IF response.kind # "array" THEN Fulfilled(<<>>)
    ELSE IF \/ Len(response.entries) > Len(MAJOR_CITIES)
            \/ \E i \in 1..Len(response.entries) : Throws(response.entries[i])
         THEN Fulfilled(<<>>)
    ELSE Fulfilled(mapEntries(response.entries, Len(response.entries)))

\* App.tsx:29 a tick of the refresh interval: loadGlobalData() starts
citiesTick ==
    /\ timers["cities"] # 0
    /\ cityLoads < MaxLoads
    /\ cityLoads' = cityLoads + 1
    /\ lastOp' = OpNote("citiesTick", TRUE, 0, "")
    /\ UNCHANGED <<appVars, playerVars, globalCities, sunPos, currentTime,
                   timers, lifecycle>>

\* App.tsx:25-26 the awaited fetchGlobalTemperatures() settles and
\* setGlobalCities(cities) runs (without effect after unmount)
citiesSettle(response) ==
    LET cities == fetchGlobalTemperatures(response)
    IN /\ cityLoads > 0
       /\ cityLoads' = cityLoads - 1
       /\ globalCities' = IF lifecycle = "mounted" /\ ~cities.rejected
                            THEN cities.value ELSE globalCities
       /\ lastOp' = OpNote("citiesSettle", ~cities.rejected, response,
                           cities.value)
       /\ UNCHANGED <<appVars, playerVars, sunPos, currentTime, timers,
                      lifecycle>>

CitiesNext ==
    \/ mount(12, 0)
    \/ citiesTick
    \/ \E response \in Responses : citiesSettle(response)

CitiesSpec == Init /\ [][CitiesNext]_vars

(***************************************************************************)
(* The four intervals from mount to unmount.                               *)
(***************************************************************************)
\* part_000:61 a tick of the city clock's interval: setCurrentTime(new Date())
clockTick(hour, minute) ==
    /\ timers["clock"] # 0
    /\ currentTime' = Some([hour |-> hour, minute |-> minute])
    /\ lastOp' = OpNote("clockTick", TRUE, [hour |-> hour, minute |-> minute], "")
    /\ UNCHANGED <<appVars, playerVars, globalCities, cityLoads, sunPos,
                   timers, lifecycle>>

\* An unmount whose city clock effect returns no cleanup.
unmountKeepsClock ==
    /\ lifecycle = "mounted"
    /\ lifecycle' = "unmounted"
    /\ timers' = [t \in TimerNames |-> IF t = "clock" THEN timers[t] ELSE 0]
    /\ SetAutoIntervals(clearAutoInterval(AutoIntervals))
    /\ SetPlayer(IF content # Null THEN stopPlayback(Player) ELSE Player)
    /\ lastOp' = OpNote("unmount", TRUE, 0, "")
    /\ UNCHANGED <<appState, currentLocation, content, autoMode, currentTheme,
                   autoTheme, logs, appAudioCtx, runs, started, replays,
                   globalCities, cityLoads, sunPos, currentTime>>

\* The cleanups that run when App is unmounted: App.tsx:30 and 137-139,
\* WorldMap.tsx:42, part_000:62 (clearInterval of each interval) and
\* LynchPlayer.tsx:18-23 (stopPlayback, when the player is rendered).
unmount ==
    /\ lifecycle = "mounted"
    /\ lifecycle' = "unmounted"
    /\ timers' = [t \in TimerNames |-> 0]
    /\ SetAutoIntervals(clearAutoInterval(AutoIntervals))
    /\ SetPlayer(IF content # Null THEN stopPlayback(Player) ELSE Player)
    /\ lastOp' = OpNote("unmount", TRUE, 0, "")
    /\ UNCHANGED <<appState, currentLocation, content, autoMode, currentTheme,
                   autoTheme, logs, appAudioCtx, runs, started, replays,
                   globalCities, cityLoads, sunPos, currentTime>>

\* Times of day tried by the intervals of this specification.
LifecycleTimes == {[hour |-> 0, minute |-> 0], [hour |-> 12, minute |-> 0]}

\* Responses tried by the refresh of this specification.
LifecycleResponses ==
    {[kind |-> "throws", entries |-> <<>>],
     [kind |-> "array", entries |-> Entries(12, 0, "ok")]}

LifecycleNext ==
    \/ mount(12, 0)
    \/ unmount
    \/ \E c \in RandomCoords : lifecycle = "mounted" /\ toggleAutoMode(c)
    \/ \E c \in RandomCoords : autoTick(c)
    \/ citiesTick
    \/ \E response \in LifecycleResponses : citiesSettle(response)
    \/ \E t \in LifecycleTimes : sunTick(t.hour, t.minute)
    \/ \E t \in LifecycleTimes : clockTick(t.hour, t.minute)

LifecycleSpec == Init /\ [][LifecycleNext]_vars

(***************************************************************************)
(* App.tsx:123-125: the coordinate runAutoLoop draws.                      *)
(***************************************************************************)
\* A value of Math.random(), a multiple of 2^-53 in [0, 1): k / 2^n for
\* k >= 0, and 1 - |k| / 2^n for k < 0.
RandomValue(k, n) ==
    IF k = 0 THEN FZero
    ELSE IF k > 0 THEN RoundBits(1, FromInt(k), FALSE, 0 - n)
    ELSE RoundBits(1, Sub(ShiftLeft(<<1>>, n), FromInt(0 - k)), FALSE, 0 - n)

RandomNumerators == -3..3
RandomExponents == {2, 10, 30, 53}

\* The randomizer over the whole latitude range.
runAutoLoopCoordsFullLat(a, b) ==
    [lat |-> FPlusInt(FMul(a, 180), -90), lng |-> FPlusInt(FMul(b, 360), -180)]

\* App.tsx:124-125 for Math.random() returning a, then b
runAutoLoopCoords(a, b) ==
    [lat |-> FPlusInt(FMul(a, 160), -80), lng |-> FPlusInt(FMul(b, 360), -180)]

\* One call of runAutoLoop up to the submission of its coordinate; lastOp
\* keeps the two random values and the coordinate.
drawCoordinate(ka, na, kb, nb) ==
    /\ lastOp.op = "init"
    /\ lastOp' = OpNote("runAutoLoop", TRUE,
                        [a |-> [k |-> ka, n |-> na], b |-> [k |-> kb, n |-> nb]],
                        runAutoLoopCoords(RandomValue(ka, na), RandomValue(kb, nb)))
    /\ UNCHANGED <<mapVars, appVars, playerVars>>

DriftNext ==
    \E ka \in RandomNumerators, na \in RandomExponents,
       kb \in RandomNumerators, nb \in RandomExponents :
         drawCoordinate(ka, na, kb, nb)

DriftSpec == Init /\ [][DriftNext]_vars

(***************************************************************************)
(* The map as the way to handleSelectLocation: App.tsx:198-204 renders     *)
(* WorldMap with `disabled`, WorldMap.tsx:45-63 forwards a click on the    *)
(* map or on a city marker to onSelectLocation unless disabled.  The map   *)
(* and its markers can be clicked while the component is mounted, when     *)
(* mapRef.current is set.                                                  *)
(***************************************************************************)
\* The flag without the narrative stage.
DisabledForgetsNarrative(s) == s = FETCHING_WEATHER \/ s = GENERATING_MEDIA

\* App.tsx:201
Disabled(s) ==
    s = FETCHING_WEATHER \/ s = GENERATING_MEDIA \/ s = GENERATING_NARRATIVE

\* WorldMap.tsx:45-57; c is the coordinate computed from the click position
handleClick(c) ==
    /\ lifecycle = "mounted"
    /\ IF Disabled(appState)
       THEN /\ lastOp' = Op("handleClick", FALSE)
            /\ UNCHANGED <<mapVars, appVars, playerVars>>
       ELSE handleSelectLocation(c)

\* WorldMap.tsx:59-63 a click on the marker of cities[i]
handleCityClick(i) ==
    /\ lifecycle = "mounted"
    /\ i \in 1..Len(globalCities)
    /\ IF Disabled(appState)
       THEN /\ lastOp' = Op("handleCityClick", FALSE)
            /\ UNCHANGED <<mapVars, appVars, playerVars>>
       ELSE handleSelectLocation([lat |-> globalCities[i].lat,
                                  lng |-> globalCities[i].lng])

CityMarkers == {1, 12}

MapNext ==
    \/ mount(12, 0)
    \/ \E response \in LifecycleResponses : citiesSettle(response)
    \/ \E c \in UserCoords : handleClick(c)
    \/ \E i \in CityMarkers : handleCityClick(i)
    \/ \E r \in RunIds : PipelineStep(r)

MapSpec == Init /\ [][MapNext]_vars

(***************************************************************************)
(* User submissions with the theme buttons.                                *)
(***************************************************************************)
ThemeUserNext ==
    \/ \E c \in UserCoords : handleSelectLocation(c)
    \/ \E r \in RunIds : PipelineStep(r)
    \/ \E t \in Themes : setCurrentTheme(t)

ThemeUserSpec == Init /\ [][ThemeUserNext]_vars

(***************************************************************************)
(* The pipeline with the theme buttons.                                    *)
(***************************************************************************)
ThemeNext ==
    \/ \E c \in UserCoords : handleSelectLocation(c)
    \/ \E c \in RandomCoords : toggleAutoMode(c)
    \/ \E c \in RandomCoords : autoTick(c)
    \/ \E r \in RunIds : RunStep(r)
    \/ \E t \in Themes : setCurrentTheme(t)

ThemeSpec == Init /\ [][ThemeNext]_vars


(***************************************************************************)
(*                              Properties                                 *)
(***************************************************************************)

\* C1: a coordinate submission made while the pipeline state is
\* FetchingWeather, GeneratingNarrative or GeneratingMedia is a no-op: the
\* pipeline state, the current selection, the content bundle, the log, the
\* in-flight runs (no gateway call, nothing queued) and the player are all
\* left as they were.
BusySubmissionIsNoOp ==
    [][(lastOp'.op = "handleSelectLocation" /\ Busy(appState))
         => (~lastOp'.ok /\ UNCHANGED <<appVars, playerVars>>)]_vars

\* A submission has just been rejected in a busy state.
BusySubmissionRejected ==
    /\ lastOp = Op("handleSelectLocation", FALSE)
    /\ Busy(appState)
    /\ InFlight # {}

\* C2: at most one pipeline run is in flight at any time.
AtMostOneRunInFlight == Cardinality(InFlight) <= 1

\* C3: every change of the pipeline state follows an allowed edge.
AllowedEdges ==
    {<<IDLE, FETCHING_WEATHER>>,
     <<FETCHING_WEATHER, GENERATING_NARRATIVE>>,
     <<GENERATING_NARRATIVE, GENERATING_MEDIA>>,
     <<GENERATING_MEDIA, PLAYING>>,
     <<FETCHING_WEATHER, ERROR>>,
     <<GENERATING_NARRATIVE, ERROR>>,
     <<GENERATING_MEDIA, ERROR>>,
     <<PLAYING, FETCHING_WEATHER>>,
     <<ERROR, FETCHING_WEATHER>>}

OnlyAllowedEdges ==
    [][appState' # appState => <<appState, appState'>> \in AllowedEdges]_vars

\* C4: when the speech call of a run has failed and its image call has
\* succeeded, the run's last continuation moves the pipeline to Error with
\* the AUDIO_FAILED message and leaves the content bundle, and with it the
\* player, as they were: the image is discarded.
SpeechFailureDiscardsImage ==
    [][(lastOp' = OpNote("mediaJoin", FALSE, 0, "url"))
         => /\ appState' = ERROR
            /\ logs' = addLog(logs, MsgAudioFailed)
            /\ content' = content
            /\ UNCHANGED playerVars]_vars

\* A run has just ended with its speech rejected and its image generated.
SpeechFailedImageSucceeded ==
    /\ lastOp = OpNote("mediaJoin", FALSE, 0, "url")
    /\ appState = ERROR
    /\ Head(logs) = MsgAudioFailed

\* C5: when the image call of a run has failed (rejected, or fulfilled with
\* null) and its speech call has succeeded, the run ends in Playing with a
\* bundle of that run whose image is null and whose audio is the run's
\* generated speech.
ImageFailureIsNotFatal ==
    (lastOp.op = "mediaJoin" /\ lastOp.ok /\ lastOp.note \in {"null", "rejected"})
      => /\ appState = PLAYING
         /\ content # Null
         /\ content[1].run \notin InFlight
         /\ content[1].imageUrl = Null
         /\ content[1].audioBuffer = Some(content[1].run)
         /\ Head(logs) = MsgReady

\* A run has just ended in Playing although its image call was rejected.
PlayingWithoutImage ==
    /\ lastOp = OpNote("mediaJoin", TRUE, 0, "rejected")
    /\ appState = PLAYING
    /\ content # Null
    /\ content[1].imageUrl = Null

\* C6: the media step is a join.  Both calls are pending together when the
\* run enters it; a settlement of one leaves the other as it was; while
\* either call of a run is still pending after a step of that run, the step
\* changes neither the pipeline state nor the bundle; and a run leaves the
\* media step only by a settlement that finds the other call settled.
MediaStepIsJoin ==
    [][\A r \in InFlight :
         /\ (runs[r].pc = "narrative" /\ r \in DOMAIN runs' /\ runs'[r].pc = "media")
              => (runs'[r].speech = "pending" /\ runs'[r].image = "pending")
         /\ (runs[r].pc = "media" /\ r \in DOMAIN runs' /\ runs'[r] # runs[r])
              => /\ runs'[r].pc = "media"
                 /\ (runs'[r].speech = runs[r].speech
                       \/ runs'[r].image = runs[r].image)
                 /\ appState' = appState
                 /\ content' = content
                 /\ logs' = logs
         /\ (runs[r].pc = "media" /\ r \notin DOMAIN runs')
              => (runs[r].speech # "pending" \/ runs[r].image # "pending")]_vars

\* The speech call of a run has failed early: its image call is still
\* pending and the pipeline is still in GeneratingMedia.
EarlySpeechFailure ==
    /\ lastOp = Op("mediaSettles", FALSE)
    /\ appState = GENERATING_MEDIA
    /\ \E r \in InFlight :
         /\ runs[r].pc = "media"
         /\ runs[r].speech = "rejected"
         /\ runs[r].image = "pending"

\* The bundle b is being played, or its playback waits for the audio
\* context to resume.
PlaybackStarted(b) ==
    \/ /\ sourceNodeRef # 0
       /\ sources[sourceNodeRef].bundle = b
       /\ sources[sourceNodeRef].status = "playing"
       /\ sourceNodeRef \in loops
    \/ \E i \in DOMAIN pendingStarts : pendingStarts[i] = b

\* C7: every transition to Playing at the end of a successful run starts
\* playback, and the visualizer, of that run's bundle.
PlayingStartsPlayback ==
    (lastOp.op = "mediaJoin" /\ lastOp.ok)
      => (content # Null /\ PlaybackStarted(content[1].run))

\* C8: at most one audio source is playing at any time.
AtMostOneAudibleSource == Cardinality(Audible) <= 1

\* C9: a render loop draws a frame only while the source that started it is
\* the current one, and at most one render loop is live.
DrawOnlyForCurrentSource ==
    /\ (lastOp.op = "draw" /\ lastOp.ok) => lastOp.src = sourceNodeRef
    /\ Cardinality(loops) <= 1

\* C10: provided every gateway call settles, every run that is started
\* ends, leaving the pipeline in Playing or Error, and the pipeline never
\* stays in FetchingWeather, GeneratingNarrative or GeneratingMedia.
EveryRunEnds ==
    /\ \A r \in RunIds :
         (r \in InFlight) ~> (r \notin InFlight /\ appState \in {PLAYING, ERROR})
    /\ Busy(appState) ~> (appState \in {PLAYING, ERROR})

\* Every run started has ended, after a failure in the media step.
RunsEndedAfterFailure ==
    /\ started = MaxStarts
    /\ InFlight = {}
    /\ lastOp = OpNote("mediaJoin", FALSE, 0, "rejected")
    /\ appState = ERROR

\* The run that a step has ended: it was in flight at stage pc with no media
\* call made, it is in flight no more, and every other run is untouched.
EndedAt(pc) ==
    \E r \in InFlight :
      /\ runs[r].pc = pc
      /\ runs[r].speech = "none"
      /\ runs[r].image = "none"
      /\ DOMAIN runs' = InFlight \ {r}
      /\ \A q \in InFlight \ {r} : runs'[q] = runs[q]

\* C11: a failing step ends the run.  The continuation of a failed weather
\* call ends a run that is still at the weather stage (no narrative, speech
\* or image call made) and sets the pipeline state to Error; the
\* continuation of a failed narrative call ends a run that is still at the
\* narrative stage (no speech or image call made) and sets the state to
\* Error; and a run that has ended never takes another step.
FailingStepEndsRun ==
    [][/\ (lastOp' = Op("weatherSettles", FALSE))
            => (EndedAt("weather") /\ appState' = ERROR)
       /\ (lastOp'.op = "narrativeSettles" /\ lastOp'.note = "NARRATIVE_FAILED")
            => (EndedAt("narrative") /\ appState' = ERROR)
       /\ \A r \in 1..started : r \notin InFlight => r \notin DOMAIN runs']_vars

\* A run has just ended at a failed narrative call, after an earlier run
\* ended at a failed weather call.
WeatherThenNarrativeFailed ==
    /\ lastOp = OpNote("narrativeSettles", FALSE, 0, "NARRATIVE_FAILED")
    /\ Head(logs) = MsgNarrativeFailed
    /\ \E i \in DOMAIN logs : logs[i] = MsgWeatherFailed
    /\ appState = ERROR
    /\ InFlight = {}

\* C12: a run that ends in Error appends exactly one error message, the one
\* of its failing step: the telemetry-link message after a failed weather
\* call, the synthesis-failure message after a failed narrative call, the
\* audio-corruption message after a failed speech call, and after any other
\* thrown error the system-failure message carrying that error's text
\* (following the progress lines logged before the throw).
OneMessagePerFailure ==
    [][/\ (lastOp' = Op("weatherSettles", FALSE))
            => logs' = addLog(logs, MsgWeatherFailed)
       /\ (lastOp'.op = "narrativeSettles" /\ lastOp'.note = "NARRATIVE_FAILED")
            => logs' = addLog(logs, MsgNarrativeFailed)
       /\ (lastOp'.op = "narrativeSettles" /\ ~lastOp'.ok
             /\ lastOp'.note # "NARRATIVE_FAILED")
            => logs' = addLog(addLog(addLog(logs, MsgNarrative), MsgGenerating),
                              MsgSystemFailure(lastOp'.note))
       /\ (lastOp'.op = "mediaJoin" /\ ~lastOp'.ok)
            => logs' = addLog(logs, MsgAudioFailed)]_vars

\* A run has just ended at an error that is none of the three categories.
UncategorizedFailure ==
    /\ lastOp = OpNote("narrativeSettles", FALSE, 0, CtxErrorText)
    /\ appState = ERROR
    /\ SubSeq(logs, 1, 3)
         = <<MsgSystemFailure(CtxErrorText), MsgGenerating, MsgNarrative>>
    /\ \E i \in DOMAIN logs : logs[i] = MsgWeatherFailed

\* C13: after a run has ended in Error a new coordinate submission is
\* accepted and starts a fresh run at the weather stage with the state
\* FetchingWeather; and there is no automatic retry: while the state is Error
\* with auto-drift off, a step that is not a submission leaves the state
\* Error, starts no run and advances no run.
ErrorAcceptsAndNeverRetries ==
    [][/\ (appState = ERROR /\ lastOp'.op = "handleSelectLocation")
            => /\ lastOp'.ok
               /\ appState' = FETCHING_WEATHER
               /\ started' = started + 1
               /\ runs' = runs @@ (started' :> NewRun(currentLocation'[1], currentTheme))
       /\ (appState = ERROR /\ ~autoMode /\ ~autoMode'
             /\ lastOp'.op # "handleSelectLocation")
            => (appState' = ERROR /\ started' = started /\ runs' = runs)]_vars

\* C14: a coordinate submission is accepted exactly when the pipeline state
\* is Idle, Playing or Error.  An accepted one records the coordinate as the
\* current selection, moves the state to FetchingWeather and starts a run
\* for that coordinate; this is what a submission made while Playing does.
AcceptedIffIdlePlayingError ==
    [][lastOp'.op = "handleSelectLocation"
         => /\ lastOp'.ok <=> appState \in {IDLE, PLAYING, ERROR}
            /\ lastOp'.ok
                 => /\ currentLocation' # Null
                    /\ currentLocation'[1] \in UserCoords
                    /\ appState' = FETCHING_WEATHER
                    /\ Head(logs') = MsgConnecting(currentLocation'[1])
                    /\ started' \in DOMAIN runs' \ DOMAIN runs
                    /\ runs'[started'].coords = currentLocation'[1]]_vars

\* A submission has just been accepted while the state was Playing: the
\* line logged before its own is the one logged on entering Playing.
SubmittedWhilePlaying ==
    /\ lastOp = Op("handleSelectLocation", TRUE)
    /\ appState = FETCHING_WEATHER
    /\ content # Null
    /\ Len(logs) >= 2
    /\ logs[2] = MsgReady
    /\ logs[1] = MsgConnecting(currentLocation[1])

\* C15 as stated: Idle and Error are the only states from which a new run is
\* accepted; a submission made in any other state, Playing included, starts
\* no run.
RunsAcceptedOnlyFromIdleOrError ==
    [][(lastOp'.op = "handleSelectLocation" /\ appState \notin {IDLE, ERROR})
         => (started' = started /\ runs' = runs)]_vars

\* C15 amended: Idle, Playing and Error are the only states from which a
\* coordinate submission starts a run; a submission made in FetchingWeather,
\* GeneratingNarrative or GeneratingMedia starts no run.
RunsAcceptedOnlyFromIdlePlayingOrError ==
    [][(lastOp'.op = "handleSelectLocation"
          /\ appState \notin {IDLE, PLAYING, ERROR})
         => (started' = started /\ runs' = runs /\ appState' = appState)]_vars

\* A submission made in GeneratingMedia has started no run: the only run
\* started so far is still waiting for its media.
SubmissionInMediaStartsNoRun ==
    /\ lastOp = Op("handleSelectLocation", FALSE)
    /\ appState = GENERATING_MEDIA
    /\ started = 1
    /\ InFlight = {1}
    /\ runs[1].pc = "media"

\* C16: the log buffer never holds more than 5 entries and is ordered
\* most-recent-first: after n appends it holds exactly the min(n, 5) lines
\* appended last, the latest first.
LogHoldsMostRecentFirst ==
    /\ Len(logs) <= 5
    /\ Len(logs) = Min(Appended, 5)
    /\ \A i \in 1..Len(logs) : logs[i].detail = Some([seq |-> Appended - i + 1])

\* Seven lines have been appended: lines 7, 6, 5, 4, 3 remain in that order.
SevenAppended ==
    /\ Appended = 7
    /\ [i \in 1..Len(logs) |-> logs[i].detail[1].seq] = <<7, 6, 5, 4, 3>>

\* C17: enabling auto-drift starts one run at once and schedules a trigger
\* every 60 seconds; disabling it cancels the interval and starts nothing;
\* the interval is scheduled exactly while auto-drift is on, and each of its
\* triggers starts one run, so that the scheduler starts no run while
\* auto-drift is off.
AutoDriftSchedule ==
    [][/\ (lastOp' = Op("toggleAutoMode", TRUE))
            => /\ ~autoMode /\ autoMode'
               /\ autoTimer' = 60000
               /\ started' = started + 1
               /\ runs'[started'].coords \in RandomCoords
       /\ (lastOp' = Op("toggleAutoMode", FALSE))
            => /\ autoMode /\ ~autoMode'
               /\ autoTimer' = 0
               /\ started' = started
               /\ runs' = runs
       /\ (lastOp'.op = "autoTick")
            => /\ autoMode /\ autoMode'
               /\ autoTimer' = autoTimer
               /\ started' = started + 1
               /\ runs'[started'].coords \in RandomCoords
       /\ (autoTimer' # 0) <=> autoMode']_vars

\* Auto-drift has just been switched off after its immediate run and one
\* run of the interval.
AutoDriftSwitchedOff ==
    /\ lastOp = Op("toggleAutoMode", FALSE)
    /\ ~autoMode
    /\ autoTimer = 0
    /\ started = 2
    /\ Len(logs) = 2
    /\ \A i \in 1..2 : \E c \in RandomCoords : logs[i] = MsgConnecting(c)

\* C18: whenever a run begins, from a submission or from auto-drift, its
\* coordinate is recorded as the current selection in the same step, and the
\* selection changes at no other time: the current selection is always the
\* coordinate of the run started last.
SelectionIsLatestRun ==
    [][/\ started' # started
            => currentLocation' = Some(runs'[started'].coords)
       /\ started' = started => currentLocation' = currentLocation]_vars

\* The label the rules of C19 give to (lat, lng), written with the claim's
\* own comparisons.
TerrainRule(lat, lng) ==
    LET alat == IF lat < 0 THEN 0 - lat ELSE lat
        alng == IF lng < 0 THEN 0 - lng ELSE lng
    IN CASE alat > 60 -> "frozen tundra"
         [] alat <= 60 /\ alat < 20 /\ alng < 30 -> "dense jungle"
         [] alat <= 60 /\ ~(alat < 20 /\ alng < 30)
              /\ 20 < alat /\ alat < 40 /\ alng > 100 -> "lonely desert highway"
         [] OTHER -> "an industrial wasteland"

\* C19: getTerrainDescription applies its rules in order with strict
\* inequalities: |lat| > 60 gives frozen tundra; else |lat| < 20 and
\* |lng| < 30 gives dense jungle; else 20 < |lat| < 40 and |lng| > 100 gives
\* lonely desert highway; else the wasteland label.  (70,0) and (70,120) are
\* tundra, (10,10) jungle, (30,120) desert highway, (0,150) the default, and
\* |lat| = 60, 20 or 40 gives the default.
TerrainRulesInOrder ==
    lastOp.op = "getTerrainDescription"
      => LET lat == lastOp.src.lat
             lng == lastOp.src.lng
             label == lastOp.note
         IN /\ label = TerrainRule(lat, lng)
            /\ (lat = 70 /\ lng \in {0, 120}) => label = "frozen tundra"
            /\ (lat = 10 /\ lng = 10) => label = "dense jungle"
            /\ (lat = 30 /\ lng = 120) => label = "lonely desert highway"
            /\ (lat = 0 /\ lng = 150) => label = "an industrial wasteland"
            /\ lat \in {-60, -40, -20, 20, 40, 60}
                 => label = "an industrial wasteland"

\* (70, 120), where the first and the third rule's longitude test both
\* hold, has been labelled tundra.
TundraAtDesertLongitude ==
    lastOp = OpNote("getTerrainDescription", TRUE, [lat |-> 70, lng |-> 120],
                    "frozen tundra")

\* C20 as stated: getPos followed by the click transform at percent / 100
\* returns the same (lat, lng), and every click inside the viewport gives a
\* latitude in [-90, 90] and a longitude in [-180, 180].
RoundTripIsIdentity ==
    /\ lastOp.op = "markerRoundTrip"
         => /\ FEqInt(lastOp.note.lat, lastOp.src.lat)
            /\ FEqInt(lastOp.note.lng, lastOp.src.lng)
    /\ lastOp.op = "mapClick"
         => (FMagLeq(lastOp.note.lat, 90) /\ FMagLeq(lastOp.note.lng, 180))

\* C20 amended: getPos followed by the click transform at percent / 100
\* returns (lat, lng) up to the rounding of the arithmetic, each component
\* within 2^-40 degree; and every click inside the viewport gives a latitude
\* in [-90, 90] and a longitude in [-180, 180].
RoundTripWithinRounding ==
    /\ lastOp.op = "markerRoundTrip"
         => /\ FNear(lastOp.note.lat, lastOp.src.lat, 40)
            /\ FNear(lastOp.note.lng, lastOp.src.lng, 40)
    /\ lastOp.op = "mapClick"
         => (FMagLeq(lastOp.note.lat, 90) /\ FMagLeq(lastOp.note.lng, 180))

\* The marker at (-90, -120) has come back with the latitude it had and a
\* longitude that is not -120.
RoundTripOffByRounding ==
    /\ lastOp.op = "markerRoundTrip"
    /\ lastOp.src = [lat |-> -90, lng |-> -120]
    /\ FEqInt(lastOp.note.lat, -90)
    /\ ~FEqInt(lastOp.note.lng, -120)
    /\ FNear(lastOp.note.lng, -120, 40)

\* C21: getPos maps (lat 90, lng -180) to left 0% / top 0%, (lat -90,
\* lng 180) to left 100% / top 100%, and (0, 0) to left 50% / top 50%.
GetPosCornersAndCentre ==
    lastOp.op = "getPos"
      => /\ lastOp.src = [lat |-> 90, lng |-> -180]
              => (FEqInt(lastOp.note.left, 0) /\ FEqInt(lastOp.note.top, 0))
         /\ lastOp.src = [lat |-> -90, lng |-> 180]
              => (FEqInt(lastOp.note.left, 100) /\ FEqInt(lastOp.note.top, 100))
         /\ lastOp.src = [lat |-> 0, lng |-> 0]
              => (FEqInt(lastOp.note.left, 50) /\ FEqInt(lastOp.note.top, 50))

\* getPos has been applied to the south-east corner (-90, 180).
SouthEastCornerPlaced ==
    /\ lastOp.op = "getPos"
    /\ lastOp.src = [lat |-> -90, lng |-> 180]
    /\ FEqInt(lastOp.note.left, 100)
    /\ FEqInt(lastOp.note.top, 100)

\* C22: for every UTC time of day the computed subsolar longitude lies in
\* [-180, 180]; it is 0 at 12:00 UTC and 180 or -180 at 00:00 UTC; the one
\* conditional wrap by 360 on each side leaves no time of day out of range.
SunLongitudeInRange ==
    (lastOp.op \in {"mount", "sunTick"})
      => /\ sunPos # Null
         /\ FMagLeq(sunPos[1].lng, 180)
         /\ (lastOp.src = [hour |-> 12, minute |-> 0])
              => FEqInt(sunPos[1].lng, 0)
         /\ (lastOp.src = [hour |-> 0, minute |-> 0])
              => (FEqInt(sunPos[1].lng, 180) \/ FEqInt(sunPos[1].lng, -180))

\* The sun position has been computed at 00:00 UTC, after one computed at
\* 23:59 at mount.
SunAtMidnight ==
    /\ lastOp = OpNote("sunTick", TRUE, [hour |-> 0, minute |-> 0], "")
    /\ currentTime = Some([hour |-> 23, minute |-> 59])
    /\ FEqInt(sunPos[1].lng, 180)

\* C23: fetchGlobalTemperatures never raises; on a transport error, a
\* non-success status, a non-array response or a malformed entry it returns
\* the empty list; otherwise entry i of the result carries the name and the
\* coordinates of the i-th reference city.
Malformed(entry) == entry.kind # "ok"
FetchFailed(response) ==
    \/ response.kind # "array"
    \/ \E i \in 1..Len(response.entries) : Malformed(response.entries[i])
EmptyOnEveryFailure ==
    lastOp.op = "citiesSettle"
      => /\ lastOp.ok
         /\ FetchFailed(lastOp.src) => lastOp.note = <<>>
         /\ \A i \in 1..Len(lastOp.note) :
               /\ lastOp.note[i].name = MAJOR_CITIES[i].name
               /\ lastOp.note[i].lat = MAJOR_CITIES[i].lat
               /\ lastOp.note[i].lng = MAJOR_CITIES[i].lng

\* C24: a refresh that comes back empty after an earlier successful one
\* leaves the loaded city set in place: the displayed set, once not empty,
\* is never replaced by the empty one.
LoadedCitiesSurviveEmptyRefresh ==
    [][globalCities # <<>> => globalCities' # <<>>]_vars

\* C25: an empty reply of the narrative call is not a failure: the
\* narrative becomes the placeholder "Static..." and the run goes on to
\* GeneratingMedia; only a thrown call ends the run in Error with
\* NARRATIVE_FAILED.
EmptyReplyIsNotAFailure ==
    [][\A r \in RunIds :
         /\ NarrativeSettles(r, "empty", FALSE)
              => /\ appState' = GENERATING_MEDIA
                 /\ r \in DOMAIN runs'
                 /\ runs'[r].pc = "media"
                 /\ runs'[r].narrative = "Static..."
         /\ (\E ctxThrows \in BOOLEAN : NarrativeSettles(r, "empty", ctxThrows))
              => /\ lastOp'.note # "NARRATIVE_FAILED"
                 /\ Head(logs') # MsgNarrativeFailed
                 /\ logs'[2] = MsgGenerating \/ Head(logs') = MsgGenerating
         /\ NarrativeSettles(r, "throw", FALSE)
              => /\ appState' = ERROR
                 /\ Head(logs') = MsgNarrativeFailed
                 /\ r \notin DOMAIN runs'
         /\ (lastOp'.op = "narrativeSettles" /\ Head(logs') = MsgNarrativeFailed)
              => \E q \in RunIds : NarrativeSettles(q, "throw", FALSE)]_vars

\* The second run, whose narrative call returned empty text, is playing
\* the placeholder.
PlaceholderPlaying ==
    /\ appState = PLAYING
    /\ content # Null
    /\ content[1].run = 2
    /\ content[1].narrativeText = "Static..."

\* C26: generateSceneryImage never propagates an error: whatever fails on
\* its path, its promise is fulfilled (with null), never rejected.
ImagePromiseNeverRejects ==
    /\ \A r \in DOMAIN runs : runs[r].image # "rejected"
    /\ lastOp.op = "mediaJoin" => lastOp.note # "rejected"

\* C27: each of the four intervals (city temperatures, sun position, city
\* clock, auto-drift) is cancelled when its component is torn down: the
\* unmount leaves no interval scheduled, and no interval callback runs once
\* the application is unmounted.
TimerCallbacks == {"citiesTick", "sunTick", "clockTick", "autoTick"}
NoTickAfterTeardown ==
    [][/\ lifecycle' = "unmounted"
            => (autoTimer' = 0 /\ \A t \in TimerNames : timers'[t] = 0)
       /\ lifecycle = "unmounted" => lastOp'.op \notin TimerCallbacks]_vars

\* The application was unmounted with auto-drift switched on and all four
\* intervals scheduled, and a pending city load has settled since.
SettledAfterTeardown ==
    /\ lifecycle = "unmounted"
    /\ autoMode
    /\ lastOp.op = "citiesSettle"

\* C28: the pipeline state and the content bundle are swapped together at
\* the end of a successful run: whenever the state is Playing a bundle with
\* audio is present, and the step in which a run enters Playing is the step
\* that makes this run's bundle the active one.
PlayingComesWithItsBundle ==
    [][/\ appState' = PLAYING
            => (content' # Null /\ content'[1].audioBuffer # Null)
       /\ (lastOp'.op = "mediaJoin" /\ lastOp'.ok)
            => /\ appState' = PLAYING
               /\ content' # content
               /\ content'[1].run \in DOMAIN runs \ DOMAIN runs'
       /\ (appState' = PLAYING /\ appState # PLAYING)
            => (lastOp'.op = "mediaJoin" /\ lastOp'.ok)]_vars

\* The second run has entered Playing while the first run's bundle was the
\* active one, and its own bundle has replaced it.
SecondBundlePlaying ==
    /\ appState = PLAYING
    /\ lastOp.op = "mediaJoin"
    /\ content # Null
    /\ content[1].run = 2
    /\ \E s \in DOMAIN sources : sources[s].bundle = 1

\* C29: after a source has played to its end (its onended fired), the
\* render loop started for it eventually stops rescheduling itself, so the
\* loops of successive replays of a bundle do not pile up.
LoopStopsAfterNaturalEnd ==
    \A s \in SourceIds :
      (lastOp = OpNote("onended", TRUE, s, "")) ~> (s \notin loops)

\* C30: every coordinate the auto-drift randomizer produces has its
\* latitude in [-80, 80] and its longitude in [-180, 180].
DriftCoordinateInRange ==
    lastOp.op = "runAutoLoop"
      => (FMagLeq(lastOp.note.lat, 80) /\ FMagLeq(lastOp.note.lng, 180))

\* Both random values were the largest below 1: the coordinate is just
\* inside the north-east corner of the range.
DriftNearNorthEastLimit ==
    /\ lastOp.op = "runAutoLoop"
    /\ lastOp.src = [a |-> [k |-> -1, n |-> 53], b |-> [k |-> -1, n |-> 53]]
    /\ FGtInt(lastOp.note.lat, 79)
    /\ FGtInt(lastOp.note.lng, 179)

\* C31: every bundle is theme-consistent: the narrative call, the speech
\* call and the image call of a run are made with one theme, the one
\* selected when the run was submitted, and the bundle records it as its
\* themeId, whatever theme is selected while the run is in flight.
CallThemes(run) ==
    {run.narrativeTheme, run.speechTheme, run.imageTheme} \ {"none"}
BundleIsThemeConsistent ==
    [][/\ \A r \in DOMAIN runs' : CallThemes(runs'[r]) \subseteq {runs'[r].theme}
       /\ (lastOp'.op = "mediaJoin" /\ lastOp'.ok)
            => \A r \in DOMAIN runs \ DOMAIN runs' :
                 /\ runs[r].narrativeTheme = runs[r].theme
                 /\ runs[r].speechTheme = runs[r].theme
                 /\ runs[r].imageTheme = runs[r].theme
                 /\ content'[1].themeId = runs[r].theme]_vars

\* A bundle made with one theme is playing while the other theme is the
\* selected one.
BundleOfEarlierTheme ==
    /\ appState = PLAYING
    /\ lastOp.op = "mediaJoin"
    /\ content # Null
    /\ content[1].themeId = "LYNCH"
    /\ currentTheme = "WES"

\* C32: a run that ends in Error leaves the content bundle unchanged: the
\* bundle that was active when the run began (or none) is the active one
\* after its failure, and the selection is still the run's coordinate.
FailedRunKeepsBundleAndSelection ==
    [][(appState' = ERROR /\ ~lastOp'.ok)
         => \A r \in DOMAIN runs \ DOMAIN runs' :
              /\ content' = runs[r].before
              /\ currentLocation' = Some(runs[r].coords)]_vars


\* C33: at most one auto-drift interval is scheduled in every reachable
\* state, whatever the sequence of enable and disable toggles: no interval
\* stays scheduled once the ref has lost its id, so re-enabling never leaves
\* an earlier interval firing beside the new one.
AtMostOneAutoInterval ==
    /\ LiveAutoIntervals <= 1
    /\ leakedIntervals = 0

\* Auto-drift has been switched on, off and on again: the second immediate
\* run has started and one interval is scheduled.
AutoDriftReEnabled ==
    /\ lastOp = Op("toggleAutoMode", TRUE)
    /\ autoMode
    /\ started = 2
    /\ Len(logs) = 2
    /\ autoTimer = AutoIntervalMs
    /\ LiveAutoIntervals = 1


\* C34: the map's disabled flag and the busy guard of handleSelectLocation
\* agree in every state: the map is disabled exactly in FETCHING_WEATHER,
\* GENERATING_NARRATIVE and GENERATING_MEDIA, exactly the states in which a
\* submission is rejected; a click on the map or on a city marker is blocked
\* only in a state where handleSelectLocation would reject it, and a click
\* that is forwarded is accepted and starts a run.
MapGateAgreesWithGuard ==
    [][/\ Disabled(appState')
            <=> appState' \in {FETCHING_WEATHER, GENERATING_NARRATIVE,
                               GENERATING_MEDIA}
       /\ Disabled(appState') <=> ~Accepts(appState')
       /\ lastOp'.op \in {"handleClick", "handleCityClick"}
            => (~Accepts(appState) /\ UNCHANGED <<appVars, playerVars>>)
       /\ lastOp'.op = "handleSelectLocation"
            => /\ lastOp'.ok
               /\ Accepts(appState)
               /\ started' = started + 1
               /\ currentLocation' = Some(runs'[started'].coords)]_vars

\* A click on the last city marker was forwarded and started the first run;
\* while its narrative is generated, another click on a marker is blocked.
MarkerClickBlockedWhileBusy ==
    /\ lastOp = Op("handleCityClick", FALSE)
    /\ appState = GENERATING_NARRATIVE
    /\ started = 1
    /\ Len(globalCities) = 12
    /\ currentLocation = Some([lat |-> globalCities[12].lat,
                               lng |-> globalCities[12].lng])
    /\ runs[1].coords = currentLocation[1]

=============================================================================
